---- MODULE Spec2Model ----
(***************************************************************************)
(* State-machine model of the ETL batch pipeline of the data-engineering   *)
(* app (processing/etl_pipeline.py), its data-quality checker              *)
(* (processing/data_quality.py) and the ingestion path that feeds it       *)
(* (ingestion/file_processor.py), over the four tables created in          *)
(* database/models.py.                                                     *)
(*                                                                         *)
(* A Python str is a sequence of one-character strings.  A float that the  *)
(* code computes as a quotient is kept exact as a pair <<num, den>> with   *)
(* den > 0; comparisons are done by cross-multiplication.                  *)
(***************************************************************************)
EXTENDS Integers, Sequences, FiniteSets, Bags, TLC

\* ------------------------------------------------------------------ bounds
\* files ever ingested
MaxFiles == 2

\* exceptions the environment raises in one behaviour (store errors, a failing
\* transform, a failing quality check)
MaxFaults == 1

\* words of a document passed to a direct call of a checker method
MaxWords == 2

\* ---------------------------------------------------------------- documents
\* the contents of the uploaded documents, as sequences of characters
T_good == <<"g","o","o","d"," ","g","o","o","d"," ","g","r","e","a","t">>
T_fox == <<"t","h","e"," ","q","u","i","c","k"," ","f","o","x">>

\* the words the documents of a direct call are made of, each with what it
\* is: the corruption markers it contains (invalid) and whether its lower-case
\* form is a word of the positive (1) or negative (-1) lexicon (polarity)
W_good == [w |-> <<"g","o","o","d">>, invalid |-> 0, polarity |-> 1]
W_BAD == [w |-> <<"B","A","D">>, invalid |-> 0, polarity |-> -1]
W_fox == [w |-> <<"f","o","x">>, invalid |-> 0, polarity |-> 0]
W_good_dot == [w |-> <<"g","o","o","d",".">>, invalid |-> 0, polarity |-> 0]
W_NULL == [w |-> <<"N","U","L","L">>, invalid |-> 1, polarity |-> 0]
W_NULLundefined ==
  [w |-> <<"N","U","L","L","u","n","d","e","f","i","n","e","d">>,
   invalid |-> 2, polarity |-> 0]

Vocabulary == {W_good, W_BAD, W_fox, W_good_dot, W_NULL, W_NULLundefined}

\* the word lists of those documents: every list of at most MaxWords words,
\* and the lists around the word counts where completeness changes
WordLists ==
  UNION {[1..n -> Vocabulary] : n \in 0..MaxWords}
    \cup {[i \in 1..n |-> W_fox] : n \in {9, 10, 49, 50}}

\* the whitespace before and after the words
Pads == {<<>>, <<" ", "\t">>}

\* " ".join(words)
RECURSIVE Join(_)
Join(words) ==
  IF words = <<>> THEN <<>>
  ELSE IF Len(words) = 1 THEN words[1].w
  ELSE words[1].w \o <<" ">> \o Join(Tail(words))

\* the text of a document: its words, single-spaced, between the padding
DocText(words, pad) == pad \o Join(words) \o pad

\* every value of processed_data.extracted_text: the content of an uploaded
\* document, or "" for a type with no extractor
Texts == {T_good, T_fox, <<>>}

\* ------------------------------------------------------------ str helpers
Max(a, b) == IF a >= b THEN a ELSE b
Min(a, b) == IF a <= b THEN a ELSE b

\* str.isspace for the characters of the modelled alphabet
IsSpace(c) == c \in {" ", "\n", "\t"}

LowerMap ==
  [c \in {"A","B","C","D","E","F","G","H","I","J","K","L","M","N","O","P","Q",
          "R","S","T","U","V","W","X","Y","Z"} |->
     CASE c = "A" -> "a" [] c = "B" -> "b" [] c = "C" -> "c" [] c = "D" -> "d"
       [] c = "E" -> "e" [] c = "F" -> "f" [] c = "G" -> "g" [] c = "H" -> "h"
       [] c = "I" -> "i" [] c = "J" -> "j" [] c = "K" -> "k" [] c = "L" -> "l"
       [] c = "M" -> "m" [] c = "N" -> "n" [] c = "O" -> "o" [] c = "P" -> "p"
       [] c = "Q" -> "q" [] c = "R" -> "r" [] c = "S" -> "s" [] c = "T" -> "t"
       [] c = "U" -> "u" [] c = "V" -> "v" [] c = "W" -> "w" [] c = "X" -> "x"
       [] c = "Y" -> "y" [] c = "Z" -> "z"]

\* str.lower()
Lower(text) ==
  [i \in 1..Len(text) |->
     IF text[i] \in DOMAIN LowerMap THEN LowerMap[text[i]] ELSE text[i]]

\* text.strip() == ""
StripIsEmpty(text) == \A i \in 1..Len(text) : IsSpace(text[i])

\* the k-th smallest element of a set of numbers
NthOf(S, k) == CHOOSE x \in S : Cardinality({y \in S : y < x}) = k - 1

\* where a maximal run of non-whitespace characters starts, and where it ends
WordStarts(text) ==
  {i \in 1..Len(text) : ~IsSpace(text[i]) /\ (i = 1 \/ IsSpace(text[i - 1]))}

WordEnds(text) ==
  {i \in 1..Len(text) : ~IsSpace(text[i]) /\ (i = Len(text) \/ IsSpace(text[i + 1]))}

\* str.split(): the maximal runs of non-whitespace characters, in order
SplitWords(text) ==
  [k \in 1..Cardinality(WordStarts(text)) |->
     SubSeq(text, NthOf(WordStarts(text), k), NthOf(WordEnds(text), k))]

\* str.split() of the stored texts and of their lower-case forms, computed once;
\* of any other text, computed when called
SplitOf == [text \in Texts \cup {Lower(t) : t \in Texts} |-> SplitWords(text)]

Split(text) == IF text \in DOMAIN SplitOf THEN SplitOf[text] ELSE SplitWords(text)

\* str.split(sep) for a one-character separator: every piece between two
\* separators (or an end of the text), empty ones too
SplitPieces(text, sep) ==
  LET at == {0, Len(text) + 1} \cup {i \in 1..Len(text) : text[i] = sep}
  IN [k \in 1..(Cardinality(at) - 1) |->
        SubSeq(text, NthOf(at, k) + 1, NthOf(at, k + 1) - 1)]

\* str.split('.') of the stored texts, computed once; of any other text,
\* computed when called
SplitOnOf == [text \in Texts, sep \in {"."} |-> SplitPieces(text, sep)]

SplitOn(text, sep) ==
  IF <<text, sep>> \in DOMAIN SplitOnOf
    THEN SplitOnOf[text, sep]
    ELSE SplitPieces(text, sep)

\* a pattern list that lacks 'undefined'
invalid_patterns_short ==
  << <<"<EF>", "<BF>", "<BD>">>,
     <<"N", "U", "L", "L">> >>

\* invalid_patterns: the mojibake of U+FFFD (three characters), 'NULL', 'undefined'
invalid_patterns ==
  << <<"<EF>", "<BF>", "<BD>">>,
     <<"N", "U", "L", "L">>,
     <<"u", "n", "d", "e", "f", "i", "n", "e", "d">> >>

\* pattern occurs in text starting at index i
MatchAt(text, pattern, i) ==
  /\ i + Len(pattern) - 1 <= Len(text)
  /\ \A k \in 1..Len(pattern) : text[i + k - 1] = pattern[k]

\* str.count(pattern): non-overlapping occurrences, scanning left to right
\* from index i: the leftmost occurrence counts and the scan resumes after it
RECURSIVE CountFrom(_, _, _)
CountFrom(text, pattern, i) ==
  LET found == {j \in i..Len(text) : MatchAt(text, pattern, j)}
  IN IF found = {}
       THEN 0
       ELSE 1 + CountFrom(text, pattern, NthOf(found, 1) + Len(pattern))

\* str.count(pattern) of the stored texts for the patterns the checker looks
\* for, computed once; of any other text, computed when called
StrCountOf ==
  [text \in Texts, pattern \in {invalid_patterns[k] : k \in 1..Len(invalid_patterns)} |->
     CountFrom(text, pattern, 1)]

StrCount(text, pattern) ==
  IF <<text, pattern>> \in DOMAIN StrCountOf
    THEN StrCountOf[text, pattern]
    ELSE CountFrom(text, pattern, 1)

\* set(seq)
Range(s) == {s[i] : i \in 1..Len(s)}

\* sum(1 for x in s if x in S)
CountIn(s, S) == Cardinality({i \in 1..Len(s) : s[i] \in S})

RECURSIVE SumSeq(_)
SumSeq(s) == IF s = <<>> THEN 0 ELSE Head(s) + SumSeq(Tail(s))

\* exact fractions <<num, den>>, den > 0
Frac(n, d) == <<n, d>>
FracGT(a, b) == a[1] * b[2] > b[1] * a[2]
FracLE(a, b) == a[1] * b[2] <= b[1] * a[2]
FracEq(a, b) == a[1] * b[2] = b[1] * a[2]

\* ------------------------------------------------- DataQualityChecker
CheckNames == <<"completeness", "validity", "consistency", "uniqueness", "accuracy">>

MaxValidLen == 1000000

\* _check_completeness with the first threshold taken inclusively
_check_completeness_inclusive(text) ==
  IF text = <<>> \/ StripIsEmpty(text)
    THEN [value |-> Frac(0, 1), status |-> "failed"]
    ELSE LET word_count == Len(Split(text)) IN
         IF word_count <= 10 THEN [value |-> Frac(3, 10), status |-> "poor"]
         ELSE IF word_count < 50 THEN [value |-> Frac(6, 10), status |-> "fair"]
         ELSE [value |-> Frac(9, 10), status |-> "good"]

_check_completeness(text) ==
  IF text = <<>> \/ StripIsEmpty(text)
    THEN [value |-> Frac(0, 1), status |-> "failed"]
    ELSE LET word_count == Len(Split(text)) IN
         IF word_count < 10 THEN [value |-> Frac(3, 10), status |-> "poor"]
         ELSE IF word_count < 50 THEN [value |-> Frac(6, 10), status |-> "fair"]
         ELSE [value |-> Frac(9, 10), status |-> "good"]

\* _check_validity with a bound that counts the threshold itself as too large
ValidityOfInclusive(length, invalid_count, word_count) ==
  IF length >= MaxValidLen
    THEN [value |-> Frac(2, 10), status |-> "poor"]
    ELSE LET words == Max(word_count, 1)
             score == Frac(Max(0, words - invalid_count), words)
         IN [value |-> score,
             status |-> IF FracGT(score, Frac(8, 10)) THEN "good" ELSE "poor"]

\* _check_validity from what it reads of the text: len(text), the sum of
\* text.count(pattern) over invalid_patterns, and len(text.split())
ValidityOf(length, invalid_count, word_count) ==
  IF length > MaxValidLen
    THEN [value |-> Frac(2, 10), status |-> "poor"]
    ELSE LET words == Max(word_count, 1)
             score == Frac(Max(0, words - invalid_count), words)
         IN [value |-> score,
             status |-> IF FracGT(score, Frac(8, 10)) THEN "good" ELSE "poor"]

_check_validity(text) ==
  ValidityOf(Len(text),
             SumSeq([k \in 1..Len(invalid_patterns) |->
                       StrCount(text, invalid_patterns[k])]),
             Len(Split(text)))

\* _check_consistency with its two results exchanged
_check_consistency_swapped(file_data) ==
  IF file_data.file_type # file_data.content_type
    THEN [value |-> Frac(9, 10), status |-> "good"]
    ELSE [value |-> Frac(5, 10), status |-> "fair"]

_check_consistency(file_data) ==
  IF file_data.file_type # file_data.content_type
    THEN [value |-> Frac(5, 10), status |-> "fair"]
    ELSE [value |-> Frac(9, 10), status |-> "good"]

\* _check_uniqueness counting the words without set()
_check_uniqueness_no_set(text) ==
  LET words == Split(text)
      uniqueness_ratio == Frac(Len(words), Max(Len(words), 1))
  IN [value |-> uniqueness_ratio,
      status |-> IF FracGT(uniqueness_ratio, Frac(7, 10)) THEN "good" ELSE "fair"]

_check_uniqueness(text) ==
  LET words == Split(text)
      uniqueness_ratio == Frac(Cardinality(Range(words)), Max(Len(words), 1))
  IN [value |-> uniqueness_ratio,
      status |-> IF FracGT(uniqueness_ratio, Frac(7, 10)) THEN "good" ELSE "fair"]

_check_accuracy(file_data) == [value |-> Frac(8, 10), status |-> "good"]

\* the k-th check of check_data_quality, in the order the code runs them
RunCheck(k, file_data) ==
  CASE k = 1 -> _check_completeness(file_data.extracted_text)
    [] k = 2 -> _check_validity(file_data.extracted_text)
    [] k = 3 -> _check_consistency(file_data)
    [] k = 4 -> _check_uniqueness(file_data.extracted_text)
    [] k = 5 -> _check_accuracy(file_data)

\* check_data_quality: the dict it returns, as the sequence of its items in
\* insertion order.  failAt = 0: no check raises.  failAt = k in 1..5: the k-th
\* check raises; the except clause keeps the entries already stored and adds
\* the 'error' entry.
check_data_quality(file_data, failAt) ==
  IF failAt = 0
    THEN [k \in 1..Len(CheckNames) |-> <<CheckNames[k], RunCheck(k, file_data)>>]
    ELSE [k \in 1..failAt |->
            IF k < failAt
              THEN <<CheckNames[k], RunCheck(k, file_data)>>
              ELSE <<"error", [value |-> Frac(0, 1), status |-> "failed"]>>]

\* ------------------------------------------------------ ETLPipeline (pure)
positive_words ==
  { <<"g","o","o","d">>, <<"g","r","e","a","t">>,
    <<"e","x","c","e","l","l","e","n","t">>, <<"a","m","a","z","i","n","g">>,
    <<"w","o","n","d","e","r","f","u","l">> }

negative_words ==
  { <<"b","a","d">>, <<"t","e","r","r","i","b","l","e">>, <<"a","w","f","u","l">>,
    <<"h","o","r","r","i","b","l","e">>, <<"p","o","o","r">> }

\* [s for s in text.split('.') if s.strip()]
Sentences(text) == SelectSeq(SplitOn(text, "."), LAMBDA s : ~StripIsEmpty(s))

_calculate_readability(text) ==
  LET words == Len(Split(text))
      sentences == Len(Sentences(text))
  IN IF words = 0 \/ sentences = 0
       THEN Frac(0, 1)
       ELSE Frac(Max(0, 100 * sentences - words), sentences)

\* _perform_basic_analytics matching the words without lower()
_perform_basic_analytics_no_lower(file_data) ==
  LET text == file_data.extracted_text
      word_count == Len(Split(text))
      positive_count == CountIn(Split(text), positive_words)
      negative_count == CountIn(Split(text), negative_words)
  IN [word_count |-> word_count,
      char_count |-> Len(text),
      sentence_count |-> Len(Sentences(text)),
      sentiment_score |-> Frac(positive_count - negative_count, Max(word_count, 1)),
      readability_score |-> _calculate_readability(text)]

_perform_basic_analytics(file_data) ==
  LET text == file_data.extracted_text
      word_count == Len(Split(text))
      positive_count == CountIn(Split(Lower(text)), positive_words)
      negative_count == CountIn(Split(Lower(text)), negative_words)
  IN [word_count |-> word_count,
      char_count |-> Len(text),
      sentence_count |-> Len(Sentences(text)),
      sentiment_score |-> Frac(positive_count - negative_count, Max(word_count, 1)),
      readability_score |-> _calculate_readability(text)]

\* ------------------------------------------------------------------ state
\* the processes that may call run_pipeline (one per user session)
Runs == {1, 2}

\* run_pipeline(self, batch_size=100)
DefaultBatchSize == 100

\* the batch sizes a caller passes (the UI allows 1..1000)
BatchSizes == {1, 2, 10}

\* the uploads of the model: (filename extension, file content)
Uploads ==
  { [ext |-> ".txt", content |-> T_good],
    [ext |-> ".bin", content |-> T_fox] }

\* ---------------------------------------------------------------- the web
\* the crawl_website calls made on the one WebCrawler of the app
MaxCalls == 2

\* the largest max_pages passed
MaxPages == 3

\* the URLs of the model, each a str; a URL is known by its place in Urls
Urls ==
  << <<"h","t","t","p","s",":","/","/","a",".","i","o","/">>,
     <<"h","t","t","p","s",":","/","/","a",".","i","o","/","b">>,
     <<"h","t","t","p",":","/","/","a",".","i","o","/","c">>,
     <<"h","t","t","p","s",":","/","/","a",".","i","o","/","f",".","P","D","F">>,
     <<"h","t","t","p","s",":","/","/","b",".","i","o","/">>,
     <<"f","t","p",":","/","/","a",".","i","o","/","g">> >>

\* the lists of links (each the urljoin of an href) a page may hold
LinkLists == {<<>>, <<2, 3>>, <<3, 3, 1>>, <<4, 5, 6, 2>>}

\* the largest max_attempts passed to retry_operation
MaxAttempts == 3

\* no retry_operation call made yet.  calls: what each call of operation did,
\* in order; sleeps: the arguments of time.sleep, in order; result: the call
\* whose value was returned (0: None); raised: the call whose exception left
\* retry_operation
NoRetry ==
  [pc |-> "idle", max_attempts |-> 0, delay |-> 0, exceptions |-> {},
   attempt |-> 0, calls |-> <<>>, sleeps |-> <<>>, result |-> 0, raised |-> 0]

\* no crawl_website call made yet
NoCrawl ==
  [pc |-> "idle", calls |-> 0, base_url |-> 0, max_pages |-> 0,
   allowed_domains |-> {}, returned |-> FALSE,
   result |-> <<>>]

\* no step of crawl_website made yet
NoEvent == [url |-> 0, outcome |-> "none"]

VARIABLES
  files,                 \* table files: file_id -> [file_type, processed]
  processed_data,        \* table processed_data: data_id -> row
  analytics_results,     \* table analytics_results: bag of rows
  data_quality_metrics,  \* table data_quality_metrics: bag of rows
  ing,                   \* the process_file call in flight
  pc,                    \* per run: the statement run_pipeline is at
  files_data,            \* per run: the extracted batch
  transformed_data,      \* per run: the records that survived the transform
  ti,                    \* per run: records of files_data already transformed
  li,                    \* per run: record of transformed_data being loaded
  si,                    \* per run: statements of that record already executed
  faults,                \* exceptions raised by the environment so far
  touched,               \* history: a files/processed_data row inserted since the last run began
  h,                     \* history: per run, what its current or latest invocation did
  arg,                   \* the argument of a direct call of a checker or analytics method
  ret,                   \* that call once it returned: the method and the value returned
  rep,                   \* the caller that invokes run_pipeline again and again
  visited_urls,          \* WebCrawler.visited_urls
  to_visit,              \* crawl_website: the queue of URLs
  crawled_data,          \* crawl_website: the pages stored by this call, by URL
  cw,                    \* the crawl_website call under way, or the latest one
  gets,                  \* history: per URL, the session.get calls made for it (0, 1, 2 or more)
  stores,                \* history: per URL, the pages of it stored (0, 1, 2 or more)
  ev,                    \* history: the latest step of crawl_website, the robots.txt gate or a pass of the loop
  rt                     \* the retry_operation call under way, or the latest one

vars == <<files, processed_data, analytics_results, data_quality_metrics, ing,
          pc, files_data, transformed_data, ti, li, si, faults, touched, h,
          arg, ret, rep, visited_urls, to_visit, crawled_data, cw, gets,
          stores, ev, rt>>

store == <<files, processed_data, analytics_results, data_quality_metrics>>
locals == <<pc, files_data, transformed_data, ti, li, si>>
call == <<arg, ret>>
web == <<visited_urls, to_visit, crawled_data, cw, gets, stores, ev>>
side == <<rep, web, rt>>

IngIdle == [pc |-> "idle", file_id |-> 0, ext |-> "", content |-> <<>>]

\* history of a run.  While the invocation is under way: batch_size, what the
\* tables held when it began (hadAR, ar0, qm0), whether its batch took every
\* eligible document (all), whether a quality check raised (checkFault) and the
\* documents it has inserted an analytics_results row for (wrote).  Once it has
\* ended: how (outcome, extractFault, loadFault), whether it loaded every
\* eligible document (full), and what it followed (second, prevFull).
NoRun ==
  [batch_size |-> 0, hadAR |-> {}, ar0 |-> 0, qm0 |-> 0, all |-> FALSE,
   checkFault |-> FALSE, wrote |-> {},
   outcome |-> "none", extractFault |-> FALSE, loadFault |-> "none",
   full |-> FALSE, second |-> FALSE, prevFull |-> FALSE]

\* the store as initialize_database leaves it, no call in flight
InitStore ==
  /\ files = <<>>
  /\ processed_data = <<>>
  /\ analytics_results = EmptyBag
  /\ data_quality_metrics = EmptyBag
  /\ ing = IngIdle
  /\ pc = [r \in Runs |-> "idle"]
  /\ files_data = [r \in Runs |-> <<>>]
  /\ transformed_data = [r \in Runs |-> <<>>]
  /\ ti = [r \in Runs |-> 0]
  /\ li = [r \in Runs |-> 0]
  /\ si = [r \in Runs |-> 0]
  /\ faults = 0
  /\ touched = FALSE
  /\ h = [r \in Runs |-> NoRun]

\* no direct call of a checker or analytics method
NoArg == [kind |-> "none"]
NoCall == [method |-> "none"]

\* no caller repeating run_pipeline
NoRepeat == [batch_size |-> 0, failing |-> {}]

\* a WebCrawler just constructed, crawl_website not called
InitWeb ==
  /\ visited_urls = {}
  /\ to_visit = <<>>
  /\ crawled_data = <<>>
  /\ cw = NoCrawl
  /\ gets = [u \in DOMAIN Urls |-> 0]
  /\ stores = [u \in DOMAIN Urls |-> 0]
  /\ ev = NoEvent

InitSide ==
  /\ rep = NoRepeat
  /\ InitWeb
  /\ rt = NoRetry

Init ==
  /\ InitStore
  /\ arg = NoArg
  /\ ret = NoCall
  /\ InitSide

\* the environment may raise one more exception
Fault ==
  /\ faults < MaxFaults
  /\ faults' = faults + 1

\* -------------------------------------------------------- table helpers
RECURSIVE SumCopies(_, _)
SumCopies(B, S) ==
  IF S = {} THEN 0
  ELSE LET x == CHOOSE y \in S : TRUE
       IN CopiesIn(x, B) + SumCopies(B, S \ {x})

\* SELECT COUNT(*) FROM analytics_results WHERE data_id = d
ARCount(d) ==
  SumCopies(analytics_results,
            {row \in BagToSet(analytics_results) : row.data_id = d})

\* SELECT COUNT(*) FROM data_quality_metrics WHERE file_id = f
QMCount(f) ==
  SumCopies(data_quality_metrics,
            {row \in BagToSet(data_quality_metrics) : row.file_id = f})

\* SELECT COUNT(*) FROM data_quality_metrics WHERE file_id = f AND check_type = c
QMCountOf(f, c) ==
  SumCopies(data_quality_metrics,
            {row \in BagToSet(data_quality_metrics) :
               row.file_id = f /\ row.check_type = c})

ARTotal == BagCardinality(analytics_results)
QMTotal == BagCardinality(data_quality_metrics)

\* ------------------------------------------------------------- ingestion
supported_formats ==
  [text |-> {".txt", ".rtf"},
   documents |-> {".pdf", ".doc", ".docx"},
   spreadsheets |-> {".xlsx", ".xls", ".csv"},
   presentations |-> {".ppt", ".pptx"},
   images |-> {".jpg", ".jpeg", ".png", ".gif", ".bmp", ".tif", ".tiff"},
   audio |-> {".mp3", ".wav", ".wma", ".m4a"},
   video |-> {".mp4", ".mov", ".wmv", ".flv", ".avi"},
   archives |-> {".zip", ".rar", ".7z"},
   executables |-> {".exe", ".dll", ".bat", ".sys"}]

_get_file_type(file_ext) ==
  IF \E t \in DOMAIN supported_formats : file_ext \in supported_formats[t]
    THEN CHOOSE t \in DOMAIN supported_formats : file_ext \in supported_formats[t]
    ELSE "unknown"

\* a str written as a sequence of characters, as the str compared with the keys
\* and lists of supported_formats
RECURSIVE Str(_)
Str(s) == IF s = <<>> THEN "" ELSE s[1] \o Str(Tail(s))

\* str.rfind(c), counted from 1 (0: not found)
RFind(p, c) ==
  IF \E i \in 1..Len(p) : p[i] = c
    THEN CHOOSE i \in 1..Len(p) : p[i] = c /\ \A j \in (i + 1)..Len(p) : p[j] # c
    ELSE 0

\* the extension taken as what follows the last dot
splitext_no_dot(p) ==
  LET dotIndex == RFind(p, ".")
  IN IF dotIndex > 0
       THEN <<SubSeq(p, 1, dotIndex), SubSeq(p, dotIndex + 1, Len(p))>>
       ELSE <<p, <<>>>>

\* os.path.splitext(p): the extension begins at the last dot of the last path
\* component, unless only dots precede that dot in the component
splitext(p) ==
  LET sepIndex == RFind(p, "/")
      dotIndex == RFind(p, ".")
  IN IF dotIndex > sepIndex /\ \E i \in (sepIndex + 1)..(dotIndex - 1) : p[i] # "."
       THEN <<SubSeq(p, 1, dotIndex - 1), SubSeq(p, dotIndex, Len(p))>>
       ELSE <<p, <<>>>>

\* process_file for a file whose content is extracted: file_ext, the
\* file_type column of its files row, the content_type column of its
\* processed_data row
process_file_types(filename) ==
  LET file_ext == Str(Lower(splitext(filename)[2]))
  IN [file_ext |-> file_ext,
      file_type |-> file_ext,
      content_type |-> _get_file_type(file_ext)]

\* process_file up to and including _store_file: the INSERT INTO files.
\* (A store error here raises before any row is written and leaves the state
\* as it was.)
StoreFile(up) ==
  /\ ing.pc = "idle"
  /\ Len(files) < MaxFiles
  /\ files' = Append(files, [file_type |-> up.ext, processed |-> FALSE])
  /\ ing' = [pc |-> "stored", file_id |-> Len(files) + 1, ext |-> up.ext,
             content |-> up.content]
  /\ touched' = TRUE
  /\ UNCHANGED <<processed_data, analytics_results, data_quality_metrics,
                 locals, faults, h>>
  /\ UNCHANGED <<call, side>>

\* _extract_content up to the INSERT INTO processed_data of
\* _store_processed_data.  The text of a 'text' file is its decoded content;
\* a type with no extractor leaves extracted_text = "".
ExtractContentOk ==
  /\ ing.pc = "stored"
  /\ LET content_type == _get_file_type(ing.ext)
         extracted_text == IF content_type = "text" THEN ing.content ELSE <<>>
     IN processed_data' =
          Append(processed_data,
                 [file_id |-> ing.file_id, content_type |-> content_type,
                  extracted_text |-> extracted_text])
  /\ ing' = [ing EXCEPT !.pc = "inserted"]
  /\ touched' = TRUE
  /\ UNCHANGED <<files, analytics_results, data_quality_metrics, locals,
                 faults, h>>
  /\ UNCHANGED <<call, side>>

\* _extract_content when the extractor or the INSERT raises: the except clause
\* returns {"error": ...}; the file row stays, unprocessed, with no document.
ExtractContentFail ==
  /\ ing.pc = "stored"
  /\ Fault
  /\ ing' = IngIdle
  /\ UNCHANGED <<store, locals, touched, h>>
  /\ UNCHANGED <<call, side>>

\* _store_processed_data: UPDATE files SET processed = TRUE (the connection is
\* autocommit, so the INSERT before it is already committed)
MarkProcessedOk ==
  /\ ing.pc = "inserted"
  /\ files' = [files EXCEPT ![ing.file_id].processed = TRUE]
  /\ ing' = IngIdle
  /\ UNCHANGED <<processed_data, analytics_results, data_quality_metrics,
                 locals, faults, touched, h>>
  /\ UNCHANGED <<call, side>>

\* _store_processed_data when the UPDATE raises
MarkProcessedFail ==
  /\ ing.pc = "inserted"
  /\ Fault
  /\ ing' = IngIdle
  /\ UNCHANGED <<store, locals, touched, h>>
  /\ UNCHANGED <<call, side>>

\* -------------------------------------------------------------- pipeline
\* the query without its NOT EXISTS clause
ExtractWhereNoAntiJoin(d) == files[processed_data[d].file_id].processed

\* the NOT EXISTS subquery correlated on the wrong key (ar.data_id = f.file_id)
ExtractWhereWrongKey(d) ==
  /\ files[processed_data[d].file_id].processed
  /\ SumCopies(analytics_results,
               {row \in BagToSet(analytics_results) :
                  row.data_id = processed_data[d].file_id}) = 0

\* the rows the extraction query may select: files JOIN processed_data WHERE
\* f.processed = TRUE AND NOT EXISTS (an analytics_results row of the document)
ExtractWhere(d) ==
  /\ files[processed_data[d].file_id].processed
  /\ ARCount(d) = 0

Eligible == {d \in DOMAIN processed_data : ExtractWhere(d)}

\* the row dict the cursor returns for document d
RowOf(d) ==
  [file_id |-> processed_data[d].file_id,
   file_type |-> files[processed_data[d].file_id].file_type,
   data_id |-> d,
   content_type |-> processed_data[d].content_type,
   extracted_text |-> processed_data[d].extracted_text]

\* the query without its LIMIT clause
NoLimit(S, n) ==
  LET k == Cardinality(S)
  IN {q \in [1..k -> S] : \A i, j \in 1..k : i # j => q[i] # q[j]}

\* LIMIT n with no ORDER BY: any n of the selected rows, in any order
LimitResults(S, n) ==
  LET k == Min(n, Cardinality(S))
  IN {q \in [1..k -> S] : \A i, j \in 1..k : i # j => q[i] # q[j]}

DataIds(recs) == {recs[i].data_id : i \in 1..Len(recs)}

\* the history of a run that begins
StartHistory(r, batch_size, q) ==
  [NoRun EXCEPT
     !.batch_size = batch_size,
     !.hadAR = {d \in DOMAIN processed_data : ARCount(d) > 0},
     !.ar0 = ARTotal,
     !.qm0 = QMTotal,
     !.all = (Len(q) = Cardinality(Eligible)),
     !.second = (h[r].outcome # "none" /\ ~touched),
     !.prevFull = h[r].full]

\* the history of a run that ends
EndHistory(r, outcome, extractFault, loadFault, full) ==
  [NoRun EXCEPT
     !.outcome = outcome,
     !.extractFault = extractFault,
     !.loadFault = loadFault,
     !.full = full,
     !.second = h[r].second,
     !.prevFull = h[r].prevFull]

\* the batch kept on the object (self.files_data) instead of in a local
EndRunKeepsBatch(r) ==
  /\ pc' = [pc EXCEPT ![r] = "idle"]
  /\ transformed_data' = [transformed_data EXCEPT ![r] = <<>>]
  /\ ti' = [ti EXCEPT ![r] = 0]
  /\ li' = [li EXCEPT ![r] = 0]
  /\ si' = [si EXCEPT ![r] = 0]
  /\ UNCHANGED files_data

\* run_pipeline returns or raises: its locals are gone
EndRun(r) ==
  /\ pc' = [pc EXCEPT ![r] = "idle"]
  /\ files_data' = [files_data EXCEPT ![r] = <<>>]
  /\ transformed_data' = [transformed_data EXCEPT ![r] = <<>>]
  /\ ti' = [ti EXCEPT ![r] = 0]
  /\ li' = [li EXCEPT ![r] = 0]
  /\ si' = [si EXCEPT ![r] = 0]

\* run_pipeline(batch_size) through _extract_unprocessed_files and the
\* `if not files_data: return` after it, with the query succeeding
ExtractOk(r, batch_size) ==
  /\ pc[r] = "idle"
  /\ \E q \in LimitResults(Eligible, batch_size) :
       IF q = <<>>
         THEN /\ h' = [h EXCEPT ![r] =
                         [EndHistory(r, "returned", FALSE, "none", TRUE) EXCEPT
                            !.second = StartHistory(r, batch_size, q).second,
                            !.prevFull = h[r].full]]
              /\ UNCHANGED locals
         ELSE /\ files_data' = [files_data EXCEPT ![r] = [i \in 1..Len(q) |-> RowOf(q[i])]]
              /\ pc' = [pc EXCEPT ![r] = "transform"]
              /\ h' = [h EXCEPT ![r] = StartHistory(r, batch_size, q)]
              /\ UNCHANGED <<transformed_data, ti, li, si>>
  /\ touched' = FALSE
  /\ UNCHANGED <<store, ing, faults>>
  /\ UNCHANGED <<call, side>>

\* run_pipeline(batch_size) when get_connection or the extraction query raises
\* mysql.connector.Error: _extract_unprocessed_files catches it and returns [],
\* and run_pipeline takes the `if not files_data: return` branch
ExtractError(r, batch_size) ==
  /\ pc[r] = "idle"
  /\ Fault
  /\ h' = [h EXCEPT ![r] =
             [EndHistory(r, "returned", TRUE, "none", FALSE) EXCEPT
                !.second = StartHistory(r, batch_size, <<>>).second,
                !.prevFull = h[r].full]]
  /\ touched' = FALSE
  /\ UNCHANGED <<store, ing, locals>>
  /\ UNCHANGED <<call, side>>

\* the check of check_data_quality that may raise inside it (0: none): the
\* second, _check_validity, after 'completeness' is stored
CheckFaults == {0, 2}

\* an except clause that logs and re-raises
ReRaiseTransformError(r) == "raise"

\* the except clause of the _transform_data loop: log and `continue`
OnTransformError(r) == "continue"

\* one pass of the for loop of _transform_data.  raises: an exception leaves
\* the try body and the record is dropped.
TransformRecord(r) ==
  /\ pc[r] = "transform"
  /\ ti[r] < Len(files_data[r])
  /\ LET file_data == files_data[r][ti[r] + 1]
         last == (ti[r] + 1 = Len(files_data[r]))
     IN \E raises \in BOOLEAN, failAt \in CheckFaults :
          /\ raises => failAt = 0
          /\ IF raises \/ failAt # 0 THEN Fault ELSE UNCHANGED faults
          /\ IF raises /\ OnTransformError(r) = "raise"
               THEN /\ EndRun(r)
                    /\ h' = [h EXCEPT ![r] = EndHistory(r, "raised", FALSE, "none", FALSE)]
               ELSE /\ LET rec == [data_id |-> file_data.data_id,
                                   quality_metrics |-> check_data_quality(file_data, failAt),
                                   analytics |-> _perform_basic_analytics(file_data),
                                   file_metadata |-> file_data]
                       IN transformed_data' =
                            [transformed_data EXCEPT ![r] =
                               IF raises THEN @ ELSE Append(@, rec)]
                    /\ h' = [h EXCEPT ![r].checkFault = (@ \/ failAt # 0)]
                    /\ ti' = [ti EXCEPT ![r] = ti[r] + 1]
                    /\ pc' = [pc EXCEPT ![r] = IF last THEN "connect" ELSE "transform"]
                    /\ UNCHANGED <<files_data, li, si>>
  /\ UNCHANGED <<store, ing, touched>>
  /\ UNCHANGED <<call, side>>

\* an INSERT that first deletes the rows of the same analysis_type
InsertAnalyticsResultReplacing(table, data) ==
  SetToBag({[data_id |-> data.data_id,
             analysis_type |-> "basic_analytics",
             results |-> data.analytics,
             confidence_score |-> data.analytics.sentiment_score]})

\* the INSERT against a table with a UNIQUE key on data_id (INSERT IGNORE)
InsertAnalyticsResultUnique(table, data) ==
  IF \E row \in BagToSet(table) : row.data_id = data.data_id
    THEN table
    ELSE table (+) SetToBag({[data_id |-> data.data_id,
                              analysis_type |-> "basic_analytics",
                              results |-> data.analytics,
                              confidence_score |-> data.analytics.sentiment_score]})

\* INSERT INTO analytics_results (analysis_id = UUID(), data_id, ...): the
\* table has no key but the generated analysis_id, so every INSERT adds a row
InsertAnalyticsResult(table, data) ==
  table (+) SetToBag({[data_id |-> data.data_id,
                       analysis_type |-> "basic_analytics",
                       results |-> data.analytics,
                       confidence_score |-> data.analytics.sentiment_score]})

\* INSERT INTO data_quality_metrics (metric_id = UUID(), file_id, check_type,
\* check_value, status) for the k-th item of data['quality_metrics']
InsertQualityMetric(table, data, k) ==
  table (+) SetToBag({[file_id |-> data.file_metadata.file_id,
                       check_type |-> data.quality_metrics[k][1],
                       check_value |-> data.quality_metrics[k][2].value,
                       status |-> data.quality_metrics[k][2].status]})

\* the inner loop stopping one item short
RECURSIVE InsertQualityMetricsShort(_, _, _)
InsertQualityMetricsShort(table, data, n) ==
  IF n <= 1 THEN table
  ELSE InsertQualityMetric(InsertQualityMetricsShort(table, data, n - 1), data, n - 1)

\* the inner loop of _load_analytics: the INSERTs for the first n items of
\* data['quality_metrics'], in order
RECURSIVE InsertQualityMetrics(_, _, _)
InsertQualityMetrics(table, data, n) ==
  IF n = 0 THEN table
  ELSE InsertQualityMetric(InsertQualityMetrics(table, data, n - 1), data, n)

\* the run loaded every document that was eligible when it began
LoadedAll(r) == h[r].all /\ Len(transformed_data[r]) = Len(files_data[r])

\* _load_analytics: db_connection.get_connection() and conn.cursor()
LoadConnectOk(r) ==
  /\ pc[r] = "connect"
  /\ pc' = [pc EXCEPT ![r] = "load"]
  /\ li' = [li EXCEPT ![r] = 1]
  /\ si' = [si EXCEPT ![r] = 0]
  /\ UNCHANGED <<store, ing, files_data, transformed_data, ti, faults, touched, h>>
  /\ UNCHANGED <<call, side>>

\* get_connection raises: _load_analytics logs and re-raises, run_pipeline
\* logs and re-raises
LoadConnectError(r) ==
  /\ pc[r] = "connect"
  /\ Fault
  /\ EndRun(r)
  /\ h' = [h EXCEPT ![r] = EndHistory(r, "raised", FALSE, "connect", FALSE)]
  /\ UNCHANGED <<store, ing, touched>>
  /\ UNCHANGED <<call, side>>

\* the INSERT INTO analytics_results for the record at li.  The connection is
\* opened with autocommit=True, so the row is committed when execute returns.
LoadAnalyticsOk(r) ==
  /\ pc[r] = "load"
  /\ li[r] <= Len(transformed_data[r])
  /\ si[r] = 0
  /\ LET data == transformed_data[r][li[r]]
     IN /\ analytics_results' = InsertAnalyticsResult(analytics_results, data)
        /\ h' = [h EXCEPT ![r].wrote = @ \cup {data.data_id}]
  /\ si' = [si EXCEPT ![r] = 1]
  /\ UNCHANGED <<files, processed_data, data_quality_metrics, ing, pc, files_data,
                 transformed_data, ti, li, faults, touched>>
  /\ UNCHANGED <<call, side>>

\* the INSERTs INTO data_quality_metrics for the record at li, one per item of
\* its quality_metrics (each its own committed statement; nothing in the
\* pipeline reads this table, so the run of them is taken as one step)
LoadMetricsOk(r) ==
  /\ pc[r] = "load"
  /\ li[r] <= Len(transformed_data[r])
  /\ si[r] = 1
  /\ LET data == transformed_data[r][li[r]]
     IN data_quality_metrics' =
          InsertQualityMetrics(data_quality_metrics, data, Len(data.quality_metrics))
  /\ li' = [li EXCEPT ![r] = li[r] + 1]
  /\ si' = [si EXCEPT ![r] = 0]
  /\ UNCHANGED <<files, processed_data, analytics_results, ing, pc, files_data,
                 transformed_data, ti, faults, touched, h>>
  /\ UNCHANGED <<call, side>>

\* a cursor.execute of _load_analytics raises mysql.connector.Error: the rows
\* of the statements before it stay (autocommit), the except clause around the
\* whole loop re-raises, and so does run_pipeline.  At si = 0 the failing
\* statement is the analytics_results INSERT; at si = 1 it is the INSERT of
\* the (n+1)-th quality metric, after n of them went through.
LoadStatementError(r) ==
  /\ pc[r] = "load"
  /\ li[r] <= Len(transformed_data[r])
  /\ Fault
  /\ LET data == transformed_data[r][li[r]]
     IN IF si[r] = 0
          THEN UNCHANGED data_quality_metrics
          ELSE \E n \in 0..(Len(data.quality_metrics) - 1) :
                 data_quality_metrics' =
                   InsertQualityMetrics(data_quality_metrics, data, n)
  /\ EndRun(r)
  /\ h' = [h EXCEPT ![r] = EndHistory(r, "raised", FALSE, "statement", FALSE)]
  /\ UNCHANGED <<files, processed_data, analytics_results, ing, touched>>
  /\ UNCHANGED <<call, side>>

\* conn.commit(), cursor.close() and the return of run_pipeline
LoadCommitOk(r) ==
  /\ pc[r] = "load"
  /\ li[r] > Len(transformed_data[r])
  /\ EndRun(r)
  /\ h' = [h EXCEPT ![r] = EndHistory(r, "returned", FALSE, "none", LoadedAll(r))]
  /\ UNCHANGED <<store, ing, faults, touched>>
  /\ UNCHANGED <<call, side>>

\* conn.commit() raises
LoadCommitError(r) ==
  /\ pc[r] = "load"
  /\ li[r] > Len(transformed_data[r])
  /\ Fault
  /\ EndRun(r)
  /\ h' = [h EXCEPT ![r] = EndHistory(r, "raised", FALSE, "commit", LoadedAll(r))]
  /\ UNCHANGED <<store, ing, touched>>
  /\ UNCHANGED <<call, side>>

\* ---------------------------------------------------------- specifications
Ingest ==
  \/ \E up \in Uploads : StoreFile(up)
  \/ ExtractContentOk
  \/ ExtractContentFail
  \/ MarkProcessedOk
  \/ MarkProcessedFail

\* a step of invocation r that is under way
RunStep(r) ==
  \/ TransformRecord(r)
  \/ LoadConnectOk(r)
  \/ LoadConnectError(r)
  \/ LoadAnalyticsOk(r)
  \/ LoadMetricsOk(r)
  \/ LoadStatementError(r)
  \/ LoadCommitOk(r)
  \/ LoadCommitError(r)

\* a call of run_pipeline
StartRun(r) ==
  \/ \E batch_size \in BatchSizes : ExtractOk(r, batch_size)
  \/ \E batch_size \in BatchSizes : ExtractError(r, batch_size)

\* no invocation of run_pipeline is under way
RunsIdle == \A r \in Runs : pc[r] = "idle"

\* one caller (one session of the app, which handles one request at a time):
\* calls of process_file and of run_pipeline never overlap
Next ==
  \/ RunsIdle /\ Ingest
  \/ ing.pc = "idle" /\ StartRun(1)
  \/ RunStep(1)

Spec == Init /\ [][Next]_vars

\* two callers of run_pipeline(), with the default batch size, whose invocations
\* may overlap each other, in an environment that raises no exception
NextConc ==
  \/ /\ RunsIdle
     /\ \/ \E up \in Uploads : StoreFile(up)
        \/ ExtractContentOk
        \/ MarkProcessedOk
  \/ /\ ing.pc = "idle"
     /\ \E r \in Runs : ExtractOk(r, DefaultBatchSize)
  \/ \E r \in Runs :
       \/ TransformRecord(r) /\ UNCHANGED faults
       \/ LoadConnectOk(r)
       \/ LoadAnalyticsOk(r)
       \/ LoadMetricsOk(r)
       \/ LoadCommitOk(r)

SpecConc == Init /\ [][NextConc]_vars

\* ------------------------------------- run_pipeline invoked again and again
\* the tables after process_file has succeeded for each of ups, in order
FilesAfter(ups) ==
  [i \in 1..Len(ups) |-> [file_type |-> ups[i].ext, processed |-> TRUE]]

ProcessedDataAfter(ups) ==
  [i \in 1..Len(ups) |->
     LET content_type == _get_file_type(ups[i].ext)
     IN [file_id |-> i, content_type |-> content_type,
         extracted_text |-> IF content_type = "text" THEN ups[i].content ELSE <<>>]]

\* some files are ingested, no run has been made, and from now on no row is
\* inserted but by run_pipeline; the caller passes rep.batch_size in every
\* call, and the transform of the documents of rep.failing raises in every run
InitRepeat ==
  /\ \E ups \in UNION {[1..k -> Uploads] : k \in 1..MaxFiles} :
       /\ files = FilesAfter(ups)
       /\ processed_data = ProcessedDataAfter(ups)
  /\ analytics_results = EmptyBag
  /\ data_quality_metrics = EmptyBag
  /\ ing = IngIdle
  /\ pc = [r \in Runs |-> "idle"]
  /\ files_data = [r \in Runs |-> <<>>]
  /\ transformed_data = [r \in Runs |-> <<>>]
  /\ ti = [r \in Runs |-> 0]
  /\ li = [r \in Runs |-> 0]
  /\ si = [r \in Runs |-> 0]
  /\ faults = 0
  /\ touched = FALSE
  /\ h = [r \in Runs |-> NoRun]
  /\ arg = NoArg
  /\ ret = NoCall
  /\ rep \in [batch_size : BatchSizes, failing : SUBSET DOMAIN processed_data]
  /\ InitWeb
  /\ rt = NoRetry

\* one pass of the for loop of _transform_data for a record whose transform
\* raises exactly when the document is one of rep.failing
TransformRecordRepeat(r) ==
  /\ pc[r] = "transform"
  /\ ti[r] < Len(files_data[r])
  /\ LET file_data == files_data[r][ti[r] + 1]
         last == (ti[r] + 1 = Len(files_data[r]))
         raises == file_data.data_id \in rep.failing
         rec == [data_id |-> file_data.data_id,
                 quality_metrics |-> check_data_quality(file_data, 0),
                 analytics |-> _perform_basic_analytics(file_data),
                 file_metadata |-> file_data]
     IN IF raises /\ OnTransformError(r) = "raise"
          THEN /\ EndRun(r)
               /\ h' = [h EXCEPT ![r] = EndHistory(r, "raised", FALSE, "none", FALSE)]
          ELSE /\ transformed_data' =
                    [transformed_data EXCEPT ![r] =
                       IF raises THEN @ ELSE Append(@, rec)]
               /\ ti' = [ti EXCEPT ![r] = ti[r] + 1]
               /\ pc' = [pc EXCEPT ![r] = IF last THEN "connect" ELSE "transform"]
               /\ UNCHANGED <<files_data, li, si, h>>
  /\ UNCHANGED <<store, ing, faults, touched>>
  /\ UNCHANGED <<call, side>>

\* the caller calls run_pipeline(rep.batch_size) as soon as the call before
\* has returned; the store raises nothing
NextRepeat ==
  \/ ExtractOk(1, rep.batch_size)
  \/ TransformRecordRepeat(1)
  \/ LoadConnectOk(1)
  \/ LoadAnalyticsOk(1)
  \/ LoadMetricsOk(1)
  \/ LoadCommitOk(1)

\* the code is sequential and the caller goes on calling: a step that can be
\* taken is taken.  Which rows LIMIT returns is the store's choice every time.
SpecRepeat == InitRepeat /\ [][NextRepeat]_vars /\ WF_vars(NextRepeat)

\* ------------------------------------------------------------ web crawler
\* the state of the pipeline, of its callers and of retry_operation, which the
\* crawler leaves alone (the rows process_file writes for a page are those of
\* StoreFile to MarkProcessedOk; here a stored page is recorded in stores)
pipeline == <<store, locals, ing, faults, touched, h, call, rep, rt>>

\* the least i >= from with u[i] in C, or Len(u) + 1
FirstAt(u, C, from) ==
  IF \E i \in from..Len(u) : u[i] \in C
    THEN CHOOSE i \in from..Len(u) :
           u[i] \in C /\ \A j \in from..(i - 1) : u[j] \notin C
    ELSE Len(u) + 1

\* urllib.parse.urlsplit(url): scheme (lower-cased), netloc and path
urlsplit(url) ==
  LET colon == FirstAt(url, {":"}, 1)
      hasScheme == /\ 1 < colon
                   /\ colon <= Len(url)
                   /\ FirstAt(url, {"/", "?", "#"}, 1) > colon
      from == IF hasScheme THEN colon + 1 ELSE 1
      hasNetloc == /\ from + 1 <= Len(url)
                   /\ url[from] = "/"
                   /\ url[from + 1] = "/"
      netlocEnd == FirstAt(url, {"/", "?", "#"}, from + 2)
      pathStart == IF hasNetloc THEN netlocEnd ELSE from
      pathEnd == FirstAt(url, {"?", "#"}, pathStart)
  IN [scheme |-> IF hasScheme THEN Str(Lower(SubSeq(url, 1, colon - 1))) ELSE "",
      netloc |-> IF hasNetloc THEN Str(SubSeq(url, from + 2, netlocEnd - 1)) ELSE "",
      path |-> SubSeq(url, pathStart, pathEnd - 1)]

\* urlsplit of the URLs of the model, computed once
urlparseOf == [url \in Range(Urls) |-> urlsplit(url)]

\* urllib.parse.urlparse(url)
urlparse(url) ==
  IF url \in DOMAIN urlparseOf THEN urlparseOf[url] ELSE urlsplit(url)

file_extensions == {".pdf", ".doc", ".docx", ".jpg", ".png", ".gif", ".zip"}

\* str.endswith
EndsWith(text, suffix) ==
  /\ Len(suffix) <= Len(text)
  /\ Str(SubSeq(text, Len(text) - Len(suffix) + 1, Len(text))) = suffix

_is_file_url(path) == \E ext \in file_extensions : EndsWith(Lower(path), ext)

\* the filter without the test of the host
_is_valid_url_any_host(url, allowed_domains) ==
  LET parsed == urlparse(url)
  IN /\ parsed.scheme \in {"http", "https"}
     /\ ~_is_file_url(parsed.path)

_is_valid_url(url, allowed_domains) ==
  LET parsed == urlparse(url)
  IN /\ parsed.scheme \in {"http", "https"}
     /\ parsed.netloc \in allowed_domains
     /\ ~_is_file_url(parsed.path)

\* _extract_links over the first n links of the page: a link is kept when it
\* is valid, not in visited_urls and not kept already
RECURSIVE _extract_links(_, _, _, _)
_extract_links(hrefs, n, allowed_domains, visited) ==
  IF n = 0 THEN <<>>
  ELSE LET links == _extract_links(hrefs, n - 1, allowed_domains, visited)
           full_url == hrefs[n]
       IN IF /\ _is_valid_url(Urls[full_url], allowed_domains)
             /\ full_url \notin visited
             /\ full_url \notin Range(links)
            THEN Append(links, full_url)
            ELSE links

\* what the request for robots.txt may meet: the file read, with rules that
\* allow or disallow the base URL for '*'; an HTTP error, which
\* RobotFileParser.read() handles itself; an error that read() raises
RobotsOutcomes ==
  {"allows", "disallows", "http_401_403", "http_4xx", "http_5xx", "raises"}

\* _check_robots_txt: rp.read(), rp.can_fetch('*', base_url), and True when
\* either raises.  read() sets disallow_all on 401 and 403, allow_all on any
\* other 4xx and nothing on 5xx; can_fetch() is False when disallow_all is set
\* or, allow_all not being set, when no file has been parsed.
_check_robots_txt(outcome) ==
  CASE outcome = "allows" -> TRUE
    [] outcome = "disallows" -> FALSE
    [] outcome = "http_401_403" -> FALSE
    [] outcome = "http_4xx" -> TRUE
    [] outcome = "http_5xx" -> FALSE
    [] outcome = "raises" -> TRUE

\* the base URLs, page limits and allowed_domains arguments passed
BaseUrls == {1, 5}
PageLimits == {0, 1, MaxPages}
AllowedArgs == {[none |-> TRUE, list |-> {}], [none |-> FALSE, list |-> {"a.io"}]}

\* crawl_website(base_url, max_pages, allowed_domains) down to the loop: the
\* default of allowed_domains, the robots.txt gate, to_visit and crawled_data
CrawlStart(base_url, max_pages, allowed) ==
  /\ cw.pc = "idle"
  /\ cw.calls < MaxCalls
  /\ \E outcome \in RobotsOutcomes :
       LET allowed_domains == IF allowed.none
                                THEN {urlparse(Urls[base_url]).netloc}
                                ELSE allowed.list
           go == _check_robots_txt(outcome)
       IN /\ cw' = [pc |-> IF go THEN "loop" ELSE "idle",
                    calls |-> cw.calls + 1,
                    base_url |-> base_url,
                    max_pages |-> max_pages,
                    allowed_domains |-> allowed_domains,
                    returned |-> ~go,
                    result |-> <<>>]
          /\ to_visit' = IF go THEN <<base_url>> ELSE <<>>
          /\ ev' = [url |-> base_url, outcome |-> outcome]
  /\ crawled_data' = <<>>
  /\ UNCHANGED <<visited_urls, gets, stores>>
  /\ UNCHANGED pipeline

\* the loop going on while the limit is not exceeded
LoopCondInclusive ==
  to_visit # <<>> /\ Len(crawled_data) <= cw.max_pages

\* while to_visit and len(crawled_data) < max_pages
LoopCond ==
  to_visit # <<>> /\ Len(crawled_data) < cw.max_pages

\* what a pass of the loop may meet for a URL not visited: session.get or
\* raise_for_status raises; the response is not text/html; _parse_html_page
\* fails (it catches the exception and returns None); _store_web_content
\* raises; the page is stored
Outcomes == {"get_error", "not_html", "parse_none", "store_error", "stored"}

\* the test at the top of the loop body always failing
InVisitedNever(url) == FALSE

\* if url in self.visited_urls: continue
InVisited(url) == url \in visited_urls

\* the except clause of the loop putting the URL back in the queue
AfterErrorRequeue(queue, url) == Append(queue, url)

\* the except clause of the loop: log and `continue`
AfterError(queue, url) == queue

\* one pass of the while loop of crawl_website
CrawlPass ==
  /\ cw.pc = "loop"
  /\ LoopCond
  /\ LET url == Head(to_visit)
         rest == Tail(to_visit)
     IN IF InVisited(url)
          THEN /\ to_visit' = rest
               /\ ev' = [url |-> url, outcome |-> "skipped"]
               /\ UNCHANGED <<visited_urls, crawled_data, gets, stores>>
          ELSE \E outcome \in Outcomes, hrefs \in LinkLists :
                 /\ outcome # "stored" => hrefs = <<>>
                 /\ gets' = [gets EXCEPT ![url] = Min(@ + 1, 2)]
                 /\ ev' = [url |-> url, outcome |-> outcome]
                 /\ CASE outcome \in {"get_error", "store_error"} ->
                           /\ to_visit' = AfterError(rest, url)
                           /\ UNCHANGED <<visited_urls, crawled_data, stores>>
                      [] outcome \in {"not_html", "parse_none"} ->
                           /\ to_visit' = rest
                           /\ visited_urls' = visited_urls \cup {url}
                           /\ UNCHANGED <<crawled_data, stores>>
                      [] outcome = "stored" ->
                           /\ stores' = [stores EXCEPT ![url] = Min(@ + 1, 2)]
                           /\ crawled_data' = Append(crawled_data, url)
                           /\ to_visit' =
                                rest \o _extract_links(hrefs, Len(hrefs),
                                                       cw.allowed_domains,
                                                       visited_urls)
                           /\ visited_urls' = visited_urls \cup {url}
  /\ UNCHANGED cw
  /\ UNCHANGED pipeline

\* the loop ends: return crawled_data
CrawlReturn ==
  /\ cw.pc = "loop"
  /\ ~LoopCond
  /\ cw' = [cw EXCEPT !.pc = "idle", !.returned = TRUE, !.result = crawled_data]
  /\ to_visit' = <<>>
  /\ crawled_data' = <<>>
  /\ UNCHANGED <<visited_urls, gets, stores, ev>>
  /\ UNCHANGED pipeline

NextCrawl ==
  \/ \E base_url \in BaseUrls, max_pages \in PageLimits, allowed \in AllowedArgs :
       CrawlStart(base_url, max_pages, allowed)
  \/ CrawlPass
  \/ CrawlReturn

\* the calls of crawl_website made on the WebCrawler of the app, one at a time
SpecCrawl == Init /\ [][NextCrawl]_vars

\* crawl_website is sequential code: a call under way takes its next step
\* (the requests it makes time out); the caller need not call again
SpecCrawlFair == SpecCrawl /\ WF_vars(CrawlPass \/ CrawlReturn)

\* -------------------------------------------------------- retry_operation
\* the delay and exceptions arguments passed, and what a call of operation
\* may do: return, or raise an exception of one of two classes
Delays == {1, 2}
ExceptionArgs == {{"Exception"}, {"ValueError"}}
OperationOutcomes == {"ok", "ValueError", "KeyError"}

RECURSIVE Pow2(_)
Pow2(n) == IF n = 0 THEN 1 ELSE 2 * Pow2(n - 1)

\* except exceptions as e: the exception is an instance of a listed class
Caught(kind, exceptions) == "Exception" \in exceptions \/ kind \in exceptions

\* the test made one attempt too late
IsLastAttemptLate(attempt, max_attempts) == attempt = max_attempts

\* if attempt == max_attempts - 1
IsLastAttempt(attempt, max_attempts) == attempt = max_attempts - 1

\* retry_operation(operation, max_attempts, delay, exceptions) is called
RetryCall(max_attempts, delay, exceptions) ==
  /\ rt.pc # "running"
  /\ rt' = [NoRetry EXCEPT !.pc = "running", !.max_attempts = max_attempts,
                           !.delay = delay, !.exceptions = exceptions]
  /\ UNCHANGED <<store, locals, ing, faults, touched, h, call, rep, web>>

\* one pass of the for loop: operation() is called
RetryAttempt ==
  /\ rt.pc = "running"
  /\ rt.attempt < rt.max_attempts
  /\ \E outcome \in OperationOutcomes :
       LET calls == Append(rt.calls, outcome)
       IN rt' =
            IF outcome = "ok"
              THEN [rt EXCEPT !.pc = "returned", !.calls = calls,
                              !.result = Len(calls)]
            ELSE IF ~Caught(outcome, rt.exceptions)
              THEN [rt EXCEPT !.pc = "raised", !.calls = calls,
                              !.raised = Len(calls)]
            ELSE IF IsLastAttempt(rt.attempt, rt.max_attempts)
              THEN [rt EXCEPT !.pc = "raised", !.calls = calls,
                              !.raised = Len(calls)]
            ELSE [rt EXCEPT !.calls = calls,
                            !.sleeps = Append(@, rt.delay * Pow2(rt.attempt)),
                            !.attempt = @ + 1]
  /\ UNCHANGED <<store, locals, ing, faults, touched, h, call, rep, web>>

\* the for loop is through: the function ends and None is returned
RetryLoopEnd ==
  /\ rt.pc = "running"
  /\ rt.attempt >= rt.max_attempts
  /\ rt' = [rt EXCEPT !.pc = "returned", !.result = 0]
  /\ UNCHANGED <<store, locals, ing, faults, touched, h, call, rep, web>>

NextRetry ==
  \/ \E max_attempts \in 0..MaxAttempts, delay \in Delays,
        exceptions \in ExceptionArgs :
       RetryCall(max_attempts, delay, exceptions)
  \/ RetryAttempt
  \/ RetryLoopEnd

SpecRetry == Init /\ [][NextRetry]_vars

\* ------------------------------------------- direct calls of the methods
\* files.file_type and processed_data.content_type of the record passed
FileTypes == {".txt", "text"}
ContentTypes == {"text", "unknown"}

\* the records passed to a direct call, each known by its construction
Documents ==
  [kind : {"document"}, words : WordLists, pad : Pads,
   file_type : FileTypes, content_type : ContentTypes]

\* the row of the extract query for a document
file_data_of(doc) ==
  [file_id |-> 1,
   file_type |-> doc.file_type,
   data_id |-> 1,
   content_type |-> doc.content_type,
   extracted_text |-> DocText(doc.words, doc.pad)]

\* the shortest text with the given numbers of words and of markers: every
\* marker is the shortest pattern, a word without marker is one character,
\* and one space separates two words
ShortestPattern ==
  CHOOSE n \in {Len(invalid_patterns[k]) : k \in 1..Len(invalid_patterns)} :
    \A k \in 1..Len(invalid_patterns) : n <= Len(invalid_patterns[k])

MinLength(word_count, invalid_count) ==
  ShortestPattern * invalid_count
    + Max(word_count - invalid_count, 0) + Max(word_count - 1, 0)

\* texts around the length _check_validity compares with, too long to write
\* out: each is given by what _check_validity reads of it
Measures ==
  {m \in [kind : {"measures"},
          length : {MaxValidLen - 1, MaxValidLen, MaxValidLen + 1},
          word_count : {0, 1, 5, 6},
          invalid_count : {0, 1, 2}] :
     /\ m.word_count = 0 => m.invalid_count = 0
     /\ MinLength(m.word_count, m.invalid_count) <= m.length}

\* the names of the files passed to process_file, each with the extension and
\* the category it has by construction; the crawler passes webpage_<hash>.html
Filenames ==
  { [kind |-> "filename", filename |-> <<"n","o","t","e","s",".","t","x","t">>,
     ext |-> ".txt", category |-> "text"],
    [kind |-> "filename", filename |-> <<"A",".","T","X","T">>,
     ext |-> ".txt", category |-> "text"],
    [kind |-> "filename", filename |-> <<"a",".","t","e","x","t">>,
     ext |-> ".text", category |-> "unknown"],
    [kind |-> "filename", filename |-> <<"t","e","x","t">>,
     ext |-> "", category |-> "unknown"],
    [kind |-> "filename", filename |-> <<".","t","e","x","t">>,
     ext |-> "", category |-> "unknown"],
    [kind |-> "filename", filename |-> <<"x",".","u","n","k","n","o","w","n">>,
     ext |-> ".unknown", category |-> "unknown"],
    [kind |-> "filename", filename |-> <<"u","n","k","n","o","w","n">>,
     ext |-> "", category |-> "unknown"],
    [kind |-> "filename",
     filename |-> <<"w","e","b","p","a","g","e","_","-","1",".","h","t","m","l">>,
     ext |-> ".html", category |-> "unknown"],
    [kind |-> "filename", filename |-> <<"a",".","b","/","t","e","x","t">>,
     ext |-> "", category |-> "unknown"],
    [kind |-> "filename", filename |-> <<"i","m","g",".","t","a","r",".","P","N","G">>,
     ext |-> ".png", category |-> "images"],
    [kind |-> "filename", filename |-> <<".",".","i","m","a","g","e","s">>,
     ext |-> "", category |-> "unknown"],
    [kind |-> "filename", filename |-> <<"d","o","c","u","m","e","n","t","s",".">>,
     ext |-> ".", category |-> "unknown"] }

InitCalls ==
  /\ InitStore
  /\ arg \in Documents \cup Measures \cup Filenames
  /\ ret = NoCall
  /\ InitSide

\* the method returns value; failAt: the check made to raise inside it
Return(method, value, failAt) ==
  /\ ret = NoCall
  /\ ret' = [method |-> method, value |-> value, failAt |-> failAt]
  /\ UNCHANGED <<arg, store, locals, ing, faults, touched, h, side>>

Call_check_completeness ==
  /\ arg.kind = "document"
  /\ Return("_check_completeness",
            _check_completeness(file_data_of(arg).extracted_text), 0)

Call_check_validity ==
  /\ arg.kind = "document"
  /\ Return("_check_validity",
            _check_validity(file_data_of(arg).extracted_text), 0)

Call_check_validity_measured ==
  /\ arg.kind = "measures"
  /\ Return("_check_validity",
            ValidityOf(arg.length, arg.invalid_count, arg.word_count), 0)

Call_check_consistency ==
  /\ arg.kind = "document"
  /\ Return("_check_consistency", _check_consistency(file_data_of(arg)), 0)

Call_check_uniqueness ==
  /\ arg.kind = "document"
  /\ Return("_check_uniqueness",
            _check_uniqueness(file_data_of(arg).extracted_text), 0)

Call_check_data_quality ==
  /\ arg.kind = "document"
  /\ \E failAt \in 0..Len(CheckNames) :
       Return("check_data_quality",
              check_data_quality(file_data_of(arg), failAt), failAt)

Call_perform_basic_analytics ==
  /\ arg.kind = "document"
  /\ Return("_perform_basic_analytics",
            _perform_basic_analytics(file_data_of(arg)), 0)

\* process_file(file_data, filename), then the consistency check of the
\* pipeline on the row the extraction query returns for the file
Call_process_file ==
  /\ arg.kind = "filename"
  /\ LET t == process_file_types(arg.filename)
         file_data == [file_id |-> 1, file_type |-> t.file_type, data_id |-> 1,
                       content_type |-> t.content_type, extracted_text |-> <<>>]
     IN Return("process_file",
               [file_type |-> t.file_type, content_type |-> t.content_type,
                consistency |-> _check_consistency(file_data)], 0)

NextCalls ==
  \/ Call_check_completeness
  \/ Call_check_validity
  \/ Call_check_validity_measured
  \/ Call_check_consistency
  \/ Call_check_uniqueness
  \/ Call_check_data_quality
  \/ Call_perform_basic_analytics
  \/ Call_process_file

SpecCalls == InitCalls /\ [][NextCalls]_vars

\* ------------------------------------------------------------------ claims
\* the documents of the batch that the transform dropped / kept
Survivors(r) == DataIds(transformed_data[r])
Dropped(r) == DataIds(files_data[r]) \ Survivors(r)
FileOf(d) == processed_data[d].file_id

\* every record of the batch is loaded and conn.commit() is next
AtCommit(r) == pc[r] = "load" /\ li[r] > Len(transformed_data[r])

\* C1: with one caller (runs never overlap), whatever was ingested and whatever
\* the batch sizes, every processed_data row has at most one analytics_results
\* row, and every analytics_results row belongs to a processed_data row.
C1_AtMostOneAnalyticsResult ==
  /\ \A d \in DOMAIN processed_data : ARCount(d) <= 1
  /\ \A row \in BagToSet(analytics_results) : row.data_id \in DOMAIN processed_data

\* a later run is loading while a document of an earlier run has its row
C1_Witness ==
  /\ pc[1] = "load"
  /\ h[1].wrote # {}
  /\ h[1].hadAR # {}
  /\ \A d \in h[1].hadAR \cup h[1].wrote : ARCount(d) = 1

\* C2 as stated: a run that follows another with no files/processed_data row
\* inserted in between adds no analytics_results row, whatever the batch size
\* and the stored documents.
C2_SecondRunAddsNothing ==
  (pc[1] # "idle" /\ h[1].second) => ARTotal = h[1].ar0

\* C2 amended: a run that follows another with no row inserted in between adds
\* no analytics_results row when the earlier run loaded every eligible document
\* (it gets an empty batch and returns at once); in any case it inserts rows
\* only for documents that had none when it began, at most batch_size of them.
C2_SecondRunAfterFullAddsNothing ==
  /\ (h[1].second /\ h[1].prevFull) =>
       (pc[1] = "idle" /\ h[1].outcome = "returned")
  /\ (pc[1] # "idle" /\ h[1].second) =>
       /\ h[1].wrote \cap h[1].hadAR = {}
       /\ \A d \in h[1].hadAR : ARCount(d) = 1
       /\ ARTotal - h[1].ar0 = Cardinality(h[1].wrote)
       /\ ARTotal - h[1].ar0 <= h[1].batch_size

\* a second run has ended after a run that loaded every eligible document
C2_Witness ==
  /\ h[1].second
  /\ h[1].prevFull
  /\ h[1].outcome = "returned"
  /\ ~h[1].extractFault
  /\ ARTotal = Len(processed_data)
  /\ ARTotal >= 1

\* C3: the batch of a run holds at most batch_size rows, all of different
\* documents whose file has processed = TRUE and which had no
\* analytics_results row when the query ran; so no document that had a row when
\* the run began is transformed or loaded by it.
C3_ExtractSelectsOnlyUnprocessed ==
  pc[1] # "idle" =>
    /\ Len(files_data[1]) <= h[1].batch_size
    /\ \A i, j \in 1..Len(files_data[1]) :
         i # j => files_data[1][i].data_id # files_data[1][j].data_id
    /\ \A i \in 1..Len(files_data[1]) :
         /\ files_data[1][i].data_id \in DOMAIN processed_data
         /\ files_data[1][i].file_id = FileOf(files_data[1][i].data_id)
         /\ files[files_data[1][i].file_id].processed
         /\ files_data[1][i].data_id \notin h[1].hadAR
    /\ Survivors(1) \subseteq DataIds(files_data[1])
    /\ h[1].wrote \subseteq Survivors(1)
    /\ h[1].wrote \cap h[1].hadAR = {}

\* LIMIT cut the batch short of the eligible documents, and the run is loading
C3_Witness ==
  /\ pc[1] = "load"
  /\ ~h[1].all
  /\ Len(files_data[1]) = h[1].batch_size
  /\ h[1].wrote # {}

\* C4 as stated: a run whose extraction failed (connection or query error)
\* ends by raising.
C4_ExtractFailureRaises ==
  \A r \in Runs : h[r].extractFault => h[r].outcome = "raised"

\* C5: a record whose transform fails is dropped: once the load loop is
\* through, it has no analytics_results and no data_quality_metrics row, while
\* every record whose transform succeeded has its analytics_results row and a
\* data_quality_metrics row per item of its quality_metrics; each record of the
\* batch went through the transform loop once; and the run raises only when the
\* store fails in the load phase, never because a transform failed.
C5_FailedTransformDropsRecord ==
  /\ pc[1] # "idle" =>
       /\ Len(transformed_data[1]) <= ti[1]
       /\ ti[1] <= Len(files_data[1])
       /\ pc[1] \in {"connect", "load"} => ti[1] = Len(files_data[1])
  /\ AtCommit(1) =>
       /\ \A d \in Dropped(1) : ARCount(d) = 0 /\ QMCount(FileOf(d)) = 0
       /\ \A i \in 1..Len(transformed_data[1]) :
            LET data == transformed_data[1][i]
            IN /\ ARCount(data.data_id) = 1
               /\ QMCount(data.file_metadata.file_id) = Len(data.quality_metrics)
  /\ h[1].outcome = "raised" => h[1].loadFault # "none"

\* one record of a batch of two was dropped and the other is loaded
C5_Witness ==
  /\ AtCommit(1)
  /\ Cardinality(Dropped(1)) = 1
  /\ Cardinality(Survivors(1)) = 1
  /\ \A d \in Survivors(1) : ARCount(d) = 1 /\ QMCount(FileOf(d)) = Len(CheckNames)
  /\ \A d \in Dropped(1) : ARCount(d) = 0

\* C6 as stated: a store error on a statement of the load loop does not make
\* the run raise.
C6_LoadErrorNotFatal ==
  \A r \in Runs : h[r].loadFault = "statement" => h[r].outcome = "returned"

\* C7: in a run in which nothing raises, once the load loop is through the
\* tables hold exactly k more analytics_results rows and 5k more
\* data_quality_metrics rows, k the number of records that survived the
\* transform: one analytics_results row per surviving document and one
\* data_quality_metrics row per check name per surviving record.
C7_RowsPerSurvivor ==
  (AtCommit(1) /\ ~h[1].checkFault) =>
    /\ ARTotal - h[1].ar0 = Len(transformed_data[1])
    /\ QMTotal - h[1].qm0 = Len(CheckNames) * Len(transformed_data[1])
    /\ \A i \in 1..Len(transformed_data[1]) :
         LET data == transformed_data[1][i]
         IN /\ ARCount(data.data_id) = 1
            /\ \A k \in 1..Len(CheckNames) :
                 QMCountOf(data.file_metadata.file_id, CheckNames[k]) = 1
            /\ QMCount(data.file_metadata.file_id) = Len(CheckNames)

\* every eligible document, more than one, went through a run with batch_size 10
C7_Witness ==
  /\ AtCommit(1)
  /\ ~h[1].checkFault
  /\ h[1].batch_size = 10
  /\ Len(transformed_data[1]) = MaxFiles
  /\ ARTotal = MaxFiles
  /\ QMTotal = Len(CheckNames) * MaxFiles

\* C8 as stated: between runs, a document that has an analytics_results row
\* has every data_quality_metrics row of the pass that wrote it (all five
\* checks, unless that pass stored the 'error' entry of a failed check).
C8_LoadAtomicPerRecord ==
  RunsIdle =>
    \A d \in DOMAIN processed_data :
      (ARCount(d) >= 1 /\ QMCountOf(FileOf(d), "error") = 0) =>
        \A k \in 1..Len(CheckNames) : QMCountOf(FileOf(d), CheckNames[k]) >= 1

\* C9: overlapping runs are not coordinated: every INSERT INTO
\* analytics_results of every run under way adds its row, so a document that
\* two runs both extracted and both loaded has two rows.
C9_OverlappingRunsBothInsert ==
  \A d \in DOMAIN processed_data :
    ARCount(d) >= Cardinality({r \in Runs : d \in h[r].wrote})

\* both runs hold the same document in their batch and both have inserted its row
C9_Witness ==
  \E d \in DOMAIN processed_data :
    /\ \A r \in Runs : pc[r] = "load" /\ d \in h[r].wrote /\ d \notin h[r].hadAR
    /\ ARCount(d) = 2

\* how far the invocation under way has come: the passes of the transform
\* loop, then the connection, then the statements of the load loop
RunRank ==
  CASE pc[1] = "idle" -> 0
    [] pc[1] = "transform" -> 1 + ti[1]
    [] pc[1] = "connect" -> 1 + Len(files_data[1])
    [] pc[1] = "load" -> 2 + Len(files_data[1]) + 2 * (li[1] - 1) + si[1]

\* the phases of run_pipeline in their order, with what each may have done;
\* a run under way can always take its next step, and its rank is bounded
C10_Phases ==
  /\ pc[1] # "idle" => ENABLED RunStep(1)
  /\ RunRank <= 2 + 3 * Len(files_data[1])
  /\ pc[1] \in {"idle", "transform", "connect", "load"}
  /\ pc[1] = "idle" =>
       /\ files_data[1] = <<>> /\ transformed_data[1] = <<>>
       /\ ti[1] = 0 /\ li[1] = 0 /\ si[1] = 0
  /\ pc[1] = "transform" =>
       /\ files_data[1] # <<>> /\ ti[1] < Len(files_data[1])
       /\ ARTotal = h[1].ar0 /\ QMTotal = h[1].qm0
  /\ pc[1] = "connect" =>
       /\ files_data[1] # <<>> /\ ti[1] = Len(files_data[1])
       /\ ARTotal = h[1].ar0 /\ QMTotal = h[1].qm0
  /\ pc[1] = "load" =>
       /\ files_data[1] # <<>> /\ ti[1] = Len(files_data[1])

\* the steps of run_pipeline: the phase changes it may make, where it writes,
\* and that each step of a run under way brings it nearer its end
C10_Step ==
  /\ (pc[1] # "idle" /\ pc'[1] # "idle") => RunRank' > RunRank
  /\ pc[1] = "idle" => pc'[1] \in {"idle", "transform"}
  /\ pc[1] = "transform" => pc'[1] \in {"transform", "connect"}
  /\ pc[1] = "connect" => pc'[1] \in {"load", "idle"}
  /\ pc[1] = "load" => pc'[1] \in {"load", "idle"}
  /\ (analytics_results' # analytics_results
        \/ data_quality_metrics' # data_quality_metrics) =>
       (pc[1] = "load" /\ ti[1] = Len(files_data[1]))
  /\ (pc[1] # "idle" \/ pc'[1] # "idle") =>
       (files' = files /\ processed_data' = processed_data)

\* C10: every invocation goes extract, transform, load in that order: every
\* record of the batch is transformed before the first INSERT, extract and
\* transform write nothing, an empty batch ends the run with nothing
\* transformed or written, and every run ends (it can always take its next
\* step, and each step advances a bounded rank), leaving no batch, no
\* transformed records and no loop position behind.
C10_PhaseOrder ==
  /\ []C10_Phases
  /\ [][C10_Step]_vars

\* a run reached the load phase with its whole batch transformed and has
\* loaded its first record
C10_Witness ==
  /\ pc[1] = "load"
  /\ Len(files_data[1]) = MaxFiles
  /\ ti[1] = Len(files_data[1])
  /\ li[1] = 2
  /\ ARTotal = h[1].ar0 + 1

\* what a document is by its construction: its words, the markers in them,
\* its distinct words, the words of each lexicon
WordsOf(doc) == Len(doc.words)
InvalidOf(doc) == SumSeq([i \in 1..Len(doc.words) |-> doc.words[i].invalid])
DistinctOf(doc) == Cardinality({doc.words[i].w : i \in 1..Len(doc.words)})
PositiveOf(doc) == Cardinality({i \in 1..Len(doc.words) : doc.words[i].polarity = 1})
NegativeOf(doc) == Cardinality({i \in 1..Len(doc.words) : doc.words[i].polarity = -1})

\* a fraction lies in [lo, hi]
FracIn(a, lo, hi) == FracLE(lo, a) /\ FracLE(a, hi)

Returned(method) == ret.method = method /\ arg.kind = "document"

\* C11: _check_completeness is a step function of the number w of words of
\* the text: no word (empty or whitespace-only text) gives 0 / failed, w < 10
\* gives 0.3 / poor, 10 <= w < 50 gives 0.6 / fair, w >= 50 gives 0.9 / good.
C11_CompletenessSteps ==
  Returned("_check_completeness") =>
    LET w == WordsOf(arg)
        expected ==
          IF w = 0 THEN [value |-> Frac(0, 1), status |-> "failed"]
          ELSE IF w < 10 THEN [value |-> Frac(3, 10), status |-> "poor"]
          ELSE IF w < 50 THEN [value |-> Frac(6, 10), status |-> "fair"]
          ELSE [value |-> Frac(9, 10), status |-> "good"]
    IN /\ ret.value.status = expected.status
       /\ FracEq(ret.value.value, expected.value)

\* a text of 50 words, padded with whitespace, was found complete
C11_Witness ==
  /\ Returned("_check_completeness")
  /\ WordsOf(arg) = 50
  /\ arg.pad # <<>>
  /\ ret.value.status = "good"

OversizedResult(v) == v.status = "poor" /\ FracEq(v.value, Frac(2, 10))

\* C12 as stated: a text of exactly 1,000,000 characters has validity status
\* good, and (0.2, poor) is returned only for longer texts.
C12_ExactThresholdIsGood ==
  (ret.method = "_check_validity" /\ arg.kind = "measures") =>
    /\ arg.length = MaxValidLen => ret.value.status = "good"
    /\ OversizedResult(ret.value) => arg.length > MaxValidLen

\* C12: a text of exactly 1,000,000 characters is scored from its markers like
\* any shorter text: its status is good exactly when it has fewer than a
\* fifth as many markers as words (so whenever it has no marker, with value
\* 1), and (0.2, poor) is returned for every longer text and for no other.
C12_ThresholdNotOversized ==
  (ret.method = "_check_validity" /\ arg.kind = "measures") =>
    /\ arg.length <= MaxValidLen =>
         (ret.value.status = "good"
            <=> 5 * arg.invalid_count < Max(arg.word_count, 1))
    /\ (arg.length = MaxValidLen /\ arg.invalid_count = 0) =>
         (ret.value.status = "good" /\ FracEq(ret.value.value, Frac(1, 1)))
    /\ arg.length > MaxValidLen => OversizedResult(ret.value)
    /\ OversizedResult(ret.value) => arg.length > MaxValidLen

\* a text of exactly 1,000,000 characters, five words and no marker was found
\* valid
C12_Witness ==
  /\ ret.method = "_check_validity" /\ arg.kind = "measures"
  /\ arg.length = MaxValidLen /\ arg.word_count = 5 /\ arg.invalid_count = 0
  /\ ret.value.status = "good"

\* C13: for a text of at most 1,000,000 characters the validity value is
\* max(0, 1 - invalid_count / word_count), with the markers counted wherever
\* they occur and a word count of 0 taken as 1; it lies in [0, 1], and the
\* status is good exactly when the value exceeds 0.8, poor otherwise.
C13_ValidityScore ==
  Returned("_check_validity") =>
    LET k == InvalidOf(arg)
        w == Max(WordsOf(arg), 1)
        expected == IF k >= w THEN Frac(0, 1) ELSE Frac(w - k, w)
    IN /\ Len(file_data_of(arg).extracted_text) <= MaxValidLen
       /\ FracEq(ret.value.value, expected)
       /\ FracIn(ret.value.value, Frac(0, 1), Frac(1, 1))
       /\ ret.value.status \in {"good", "poor"}
       /\ ret.value.status = "good" <=> FracGT(ret.value.value, Frac(8, 10))

\* a text with more markers than words scored 0, and one with a marker of each
\* kind in one of its two words scored 0 too
C13_Witness ==
  /\ Returned("_check_validity")
  /\ arg.words = <<W_NULLundefined, W_fox>>
  /\ FracEq(ret.value.value, Frac(0, 1))
  /\ ret.value.status = "poor"

\* C14: _check_consistency returns 0.9 / good exactly when file_type equals
\* content_type and 0.5 / fair when they differ, whatever else the record holds.
C14_ConsistencyComparesTypes ==
  Returned("_check_consistency") =>
    IF arg.file_type = arg.content_type
      THEN ret.value.status = "good" /\ FracEq(ret.value.value, Frac(9, 10))
      ELSE ret.value.status = "fair" /\ FracEq(ret.value.value, Frac(5, 10))

\* a record whose two types are equal was found consistent
C14_Witness ==
  /\ Returned("_check_consistency")
  /\ arg.file_type = arg.content_type
  /\ arg.words # <<>>
  /\ ret.value.status = "good"

\* C15: the uniqueness value is distinct words / words (words taken as 1 when
\* there is none): 1 for a text with words none of which repeats, within
\* [0, 1]; the status is good exactly when the value exceeds 0.7 and fair
\* otherwise, so a text without words is fair with value 0.
C15_UniquenessRatio ==
  Returned("_check_uniqueness") =>
    LET total == WordsOf(arg)
        distinct == DistinctOf(arg)
    IN /\ FracEq(ret.value.value, Frac(distinct, Max(total, 1)))
       /\ (total > 0 /\ distinct = total) => FracEq(ret.value.value, Frac(1, 1))
       /\ FracIn(ret.value.value, Frac(0, 1), Frac(1, 1))
       /\ ret.value.status \in {"good", "fair"}
       /\ ret.value.status = "good" <=> FracGT(ret.value.value, Frac(7, 10))
       /\ total = 0 =>
            (ret.value.status = "fair" /\ FracEq(ret.value.value, Frac(0, 1)))

\* a text that repeats its one word was found fair with value 1/2
C15_Witness ==
  /\ Returned("_check_uniqueness")
  /\ arg.words = <<W_good, W_good>>
  /\ FracEq(ret.value.value, Frac(1, 2))
  /\ ret.value.status = "fair"

\* the entry the except clause of check_data_quality stores
ErrorEntry == <<"error", [value |-> Frac(0, 1), status |-> "failed"]>>

\* C16: when a check fails inside check_data_quality, the mapping returned is
\* the single entry error -> {value: 0, status: failed}, with no entry of a
\* check in it.
C16_FailureGivesOnlyError ==
  (Returned("check_data_quality") /\ ret.failAt # 0) => ret.value = <<ErrorEntry>>

C18_SentimentScore ==
  Returned("_perform_basic_analytics") =>
    LET pos == PositiveOf(arg)
        neg == NegativeOf(arg)
        score == ret.value.sentiment_score
    IN /\ FracEq(score, Frac(pos - neg, Max(WordsOf(arg), 1)))
       /\ (pos = 0 /\ neg = 0) => FracEq(score, Frac(0, 1))
       /\ pos > neg => FracGT(score, Frac(0, 1))
       /\ neg > pos => FracGT(Frac(0, 1), score)
       /\ FracIn(score, Frac(-1, 1), Frac(1, 1))

\* a text whose only lexicon word is an upper-case negative one scored -1/2
C18_Witness ==
  /\ Returned("_perform_basic_analytics")
  /\ arg.words = <<W_BAD, W_good_dot>>
  /\ FracEq(ret.value.sentiment_score, Frac(-1, 2))

\* a step of an invocation of run_pipeline: one is under way before or after
\* it, or it began and ended one
RunPipelineStep ==
  \/ \E r \in Runs : pc[r] # "idle" \/ pc'[r] # "idle"
  \/ h' # h

C19_Step ==
  RunPipelineStep =>
    /\ files' = files
    /\ processed_data' = processed_data
    /\ analytics_results \sqsubseteq analytics_results'
    /\ data_quality_metrics \sqsubseteq data_quality_metrics'

\* C19: run_pipeline only appends rows to analytics_results and
\* data_quality_metrics: no step of it removes or changes a row of either
\* table, and none changes a row of files or processed_data.
C19_RunOnlyAppends == [][C19_Step]_vars

\* a run is loading its second record: rows of both tables are there from the
\* first, under files whose flag is still set
C19_Witness ==
  /\ pc[1] = "load" /\ li[1] = 2 /\ si[1] = 1
  /\ ARTotal = h[1].ar0 + 2
  /\ QMTotal > h[1].qm0
  /\ \A f \in 1..Len(files) : files[f].processed

\* C20: between calls of process_file, whatever failed in them, a file has
\* processed = TRUE exactly when a processed_data row exists for it.
C20_ProcessedIffDocument ==
  ing.pc = "idle" =>
    \A f \in 1..Len(files) :
      files[f].processed <=>
        (\E d \in 1..Len(processed_data) : processed_data[d].file_id = f)

\* C21 as stated: when run_pipeline is called again and again with the same
\* batch_size and no row is inserted but by it, every processed document whose
\* transform does not fail gets an analytics_results row in the end
C21_NoStarvation ==
  <>(\A d \in DOMAIN processed_data :
       (files[FileOf(d)].processed /\ d \notin rep.failing) => ARCount(d) > 0)

\* the names of the format categories: the keys of supported_formats and the
\* default of _get_file_type
Categories == DOMAIN supported_formats \cup {"unknown"}

\* C22: the file_type stored for a file is the (lower-cased) extension of its
\* name and the content_type of its document is the format category of that
\* extension; no extension is the name of a category, listed in
\* supported_formats or not; so the consistency check of the pipeline gives
\* 0.5 / fair, never 0.9 / good
C22_ConsistencyAlwaysFair ==
  /\ \A t \in DOMAIN supported_formats : supported_formats[t] \cap Categories = {}
  /\ ret.method = "process_file" =>
       /\ ret.value.file_type = arg.ext
       /\ ret.value.content_type = arg.category
       /\ ret.value.file_type \notin Categories
       /\ ret.value.consistency.status = "fair"
       /\ FracEq(ret.value.consistency.value, Frac(5, 10))

\* a file named x.unknown, of no supported format, went through
C22_Witness ==
  /\ ret.method = "process_file"
  /\ arg.ext = ".unknown"
  /\ ret.value.content_type = "unknown"
  /\ ret.value.consistency.status = "fair"

\* a step of the call under way that is a pass of its loop
PassStep == cw.pc = "loop" /\ cw' = cw /\ web' # web

\* the latest step was a pass that made a request
Fetched == ev.outcome \in Outcomes

\* C23 as stated: the WebCrawler never requests a URL a second time, whatever
\* the pages link to and whichever requests fail
C23_NoUrlFetchedTwice ==
  \A u \in DOMAIN Urls : gets[u] <= 1

\* robots.txt could not be read: the request for it was answered with an HTTP
\* error or raised
Unreadable == {"http_401_403", "http_4xx", "http_5xx", "raises"}

C24_Step ==
  LET started == cw'.calls = cw.calls + 1
  IN /\ (started /\ ev'.outcome = "disallows") =>
          /\ cw'.pc = "idle"
          /\ cw'.returned
          /\ cw'.result = <<>>
          /\ UNCHANGED <<visited_urls, gets, stores>>
     /\ (started /\ ev'.outcome \in Unreadable) =>
          /\ cw'.pc = "loop"
          /\ to_visit' = <<cw'.base_url>>
     /\ started => ev'.outcome \in RobotsOutcomes /\ ev'.url = cw'.base_url
     /\ ~started => (ev'.outcome \in RobotsOutcomes => ev' = ev)

\* C24 as stated: a call that finds the base URL disallowed by robots.txt
\* returns [] with no request made, nothing stored and visited_urls as it was;
\* a call that cannot read robots.txt goes on to its loop as if allowed; the
\* gate is evaluated when the call begins, for the base URL, and by no later
\* step
C24_RobotsGate == [][C24_Step]_vars

UrlFacts ==
  << [scheme |-> "https", host |-> "a.io", file |-> FALSE],
     [scheme |-> "https", host |-> "a.io", file |-> FALSE],
     [scheme |-> "http", host |-> "a.io", file |-> FALSE],
     [scheme |-> "https", host |-> "a.io", file |-> TRUE],
     [scheme |-> "https", host |-> "b.io", file |-> FALSE],
     [scheme |-> "ftp", host |-> "a.io", file |-> FALSE] >>

Permitted(u, allowed_domains) ==
  /\ UrlFacts[u].scheme \in {"http", "https"}
  /\ UrlFacts[u].host \in allowed_domains
  /\ ~UrlFacts[u].file

C26_Step ==
  /\ (Fetched /\ ev.url # cw.base_url)' =>
       Permitted(ev'.url, cw'.allowed_domains)
  /\ \A i \in 1..Len(to_visit') :
       to_visit'[i] # cw'.base_url =>
         Permitted(to_visit'[i], cw'.allowed_domains)
  /\ (PassStep /\ to_visit # <<>> /\ Head(to_visit) = cw.base_url
        /\ cw.base_url \notin visited_urls) =>
       (Fetched /\ ev.url = cw.base_url)'

NoDuplicates(q) == \A i, j \in 1..Len(q) : i # j => q[i] # q[j]

Failures == {"get_error", "parse_none", "store_error"}

C28_Step ==
  /\ (PassStep /\ ev'.outcome \in Failures) =>
       /\ visited_urls' = visited_urls
       /\ crawled_data' = crawled_data
       /\ stores' = stores
       /\ to_visit' = Tail(to_visit)
       /\ cw'.pc = "loop"
  /\ (cw.pc = "loop" /\ cw'.pc = "idle") => cw'.returned

\* C28 as stated: a pass of the loop in which the request, the parsing or the
\* storing fails leaves visited_urls and the pages stored as they were, adds
\* nothing to the queue, and the call goes on with the rest of the queue;
\* every call returns
C28_FailureSkipsUrl == [][C28_Step]_vars

\* C29: whatever pages the URLs answer with and whichever requests fail, a
\* crawl_website call that has entered its loop returns: the queue empties or
\* the page limit is reached
C29_CrawlTerminates ==
  \A k \in 1..MaxCalls :
    (cw.calls = k /\ cw.pc = "loop")
      ~> (cw.calls = k /\ cw.pc = "idle" /\ cw.returned /\ ~LoopCond)

\* a call returned, with two pages stored, after a pass in which the request
\* failed
C29_Witness ==
  /\ cw.pc = "idle"
  /\ cw.returned
  /\ Len(cw.result) >= 2
  /\ ev.outcome = "get_error"

\* the calls of operation that raised an exception of a listed class
ListedFailure(i) ==
  rt.calls[i] # "ok" /\ Caught(rt.calls[i], rt.exceptions)

\* C30: with max_attempts >= 1, operation is called at most max_attempts
\* times; every call but the latest raised a listed exception and was followed
\* by one wait, of delay * 2^attempt; a call that returns ends retry_operation
\* with its value; a call that raises an unlisted exception ends it with that
\* exception; the max_attempts-th listed exception ends it with that exception,
\* and no wait follows it
C30_RetrySemantics ==
  rt.max_attempts >= 1 =>
    LET n == Len(rt.calls)
    IN /\ n <= rt.max_attempts
       /\ \A i \in 1..(n - 1) : ListedFailure(i)
       /\ Len(rt.sleeps) = (IF rt.pc = "running" THEN n ELSE n - 1)
       /\ \A i \in 1..Len(rt.sleeps) : rt.sleeps[i] = rt.delay * Pow2(i - 1)
       /\ rt.pc = "running" => (n < rt.max_attempts /\ \A i \in 1..n : ListedFailure(i))
       /\ rt.pc = "returned" => (n >= 1 /\ rt.calls[n] = "ok" /\ rt.result = n)
       /\ rt.pc = "raised" =>
            /\ n >= 1
            /\ rt.calls[n] # "ok"
            /\ rt.raised = n
            /\ ListedFailure(n) => n = rt.max_attempts
       /\ (n >= 1 /\ rt.calls[n] = "ok") => rt.pc = "returned"
       /\ (n >= 1 /\ rt.calls[n] # "ok" /\ ~ListedFailure(n)) => rt.pc = "raised"
       /\ (n = rt.max_attempts /\ ListedFailure(n)) => rt.pc = "raised"

\* three attempts allowed, three listed exceptions: the third is raised
C30_Witness ==
  /\ rt.pc = "raised"
  /\ rt.max_attempts = 3
  /\ Len(rt.calls) = 3
  /\ ListedFailure(3)
  /\ Len(rt.sleeps) = 2

====
